---- MODULE Spec2Model ----
(***************************************************************************)
(* A model of the AimTrainer core: the Target object, the TargetPool       *)
(* recycler, the TargetManager director and the PerformanceManager         *)
(* quality controller.                                                     *)
(*                                                                         *)
(* Lengths are in tenths of a world unit (a size of 0.5 is 5, the bound    *)
(* minY = 0.5 is 5), so that all arithmetic is on integers.  A Target      *)
(* instance is a reference: its index in `heap`, the sequence of every     *)
(* Target ever constructed.                                                *)
(***************************************************************************)
EXTENDS Integers, Sequences, FiniteSets, TLC

VARIABLES
  heap,           \* every Target constructed so far, by reference
  pool,           \* TargetPool.pool: the available targets, a stack
  activeTargets,  \* TargetPool.activeTargets: a set of references
  maxPoolSize,    \* TargetPool.maxPoolSize
  scene,          \* the target meshes that are children of the THREE.Scene
  idCount,        \* number of ids generateId has produced
  idBase,         \* number of ids produced by the constructors (warm-up)
  now,            \* Date.now()
  targets,        \* TargetManager.targets: Map id -> Target, insertion-ordered
  maxTargets,     \* TargetManager.maxTargets
  targetSize,     \* TargetManager.targetSize
  isSpawning,     \* TargetManager.isSpawning
  spawnInterval,  \* TargetManager.spawnInterval: a timer handle or NULL
  timers,         \* the interval timers the host keeps alive
  TRAINING_AREA,  \* TargetManager.TRAINING_AREA
  ret,            \* the last operation called and what it returned
  perf,           \* the PerformanceManager's fields, as a record
  clock,          \* performance.now(), the time of the last frame
  lastAutoChange, \* the clock at the last automatic tier change, or NULL
  prevQuality,    \* qualityLevel before the last automatic tier change
  calls,          \* number of setter and reset calls on the PerformanceManager
  scoreData,      \* ScoreManager.scoreData
  scoreLog,       \* the addHit/addMiss calls since the last reset, with the values returned
  game            \* GameEngine: currentState, gameTimer, gameTimerInterval, live game timers

poolVars == <<heap, pool, activeTargets, maxPoolSize, scene, idCount, idBase>>
managerVars == <<targets, maxTargets, targetSize, isSpawning, spawnInterval,
                 timers, TRAINING_AREA>>
perfVars == <<perf, clock, lastAutoChange, prevQuality, calls>>
scoreVars == <<scoreData, scoreLog>>
vars == <<poolVars, now, managerVars, ret, perfVars, scoreVars, game>>

NULL == -1
NoPosition == <<>>

\* ---- bounds of the model ----
MaxFresh == 2      \* ids the pool generates after construction, pool on its own
MaxSpawned == 4    \* ids generated after construction, director and pool
MaxNow == 1        \* the clock stops advancing here
WindowSize == 3    \* length of the FPS window (60 in the source)
MinSamples == 2    \* samples a performance check needs (30 in the source)
CheckInterval == 100  \* performanceCheckInterval in ms (1000 in the source)
MaxClock == 250    \* performance.now() stops advancing here
MaxCalls == 3      \* setter and reset calls on the PerformanceManager
SteadyMaxClock == 450  \* the same, under a constant frame time
MaxResized == 12   \* ids generated after construction, resizing the target count
MaxPlaced == 1
MaxShots == 4
MaxGameSpawned == 4
MaxClicks == 2
MaxTracked == 3
MaxBackstop == 5   \* ids generated after construction, under the backstop timer

\* ---- inputs ----
InitialSizes == {0, 4, 6}                 \* initialSize given to new TargetPool
AcquireArgs == {<<<<0, 16, -150>>, 5>>, <<<<70, 30, -100>>, 10>>}
PoolSizeArgs == {0, 12, 60}              \* arguments of setMaxPoolSize
RandomPositions == {<<0, 16, -150>>}     \* generated by the spawn policy, unclamped
SuppliedPositions == {<<0, 16, -150>>}    \* passed to spawnTarget by a caller
MaxTargetsArgs == {0}                    \* arguments of setMaxTargets
ManagerPoolSizeArgs == {5}               \* arguments of TargetManager.setMaxPoolSize
PreloadArgs == {0, 2, 30}                \* arguments of preload

Origin == <<0, 0, 0>>
DefaultSize == 5                         \* 0.5
DefaultMaxPoolSize == 20
MinPoolSize == 5
MaxPoolSizeLimit == 50
ManagerPoolSize == 15

Max(a, b) == IF a > b THEN a ELSE b
Min(a, b) == IF a < b THEN a ELSE b

\* The world the methods act on, as one record.
World ==
  [heap |-> heap, pool |-> pool, activeTargets |-> activeTargets,
   maxPoolSize |-> maxPoolSize, scene |-> scene, idCount |-> idCount,
   now |-> now, targets |-> targets, maxTargets |-> maxTargets,
   targetSize |-> targetSize, isSpawning |-> isSpawning,
   spawnInterval |-> spawnInterval, timers |-> timers,
   TRAINING_AREA |-> TRAINING_AREA, acquired |-> NULL, rnd |-> <<>>]

CommitTargets(w) ==
  /\ heap' = w.heap
  /\ pool' = w.pool
  /\ activeTargets' = w.activeTargets
  /\ maxPoolSize' = w.maxPoolSize
  /\ scene' = w.scene
  /\ idCount' = w.idCount
  /\ targets' = w.targets
  /\ maxTargets' = w.maxTargets
  /\ targetSize' = w.targetSize
  /\ isSpawning' = w.isSpawning
  /\ spawnInterval' = w.spawnInterval
  /\ timers' = w.timers
  /\ TRAINING_AREA' = w.TRAINING_AREA
  /\ UNCHANGED <<idBase, now, perfVars>>

Commit(w) ==
  /\ CommitTargets(w)
  /\ UNCHANGED <<scoreVars, game>>

\* ------------------------------------------------------------------------
\* Target
\* ------------------------------------------------------------------------

\* `target_${Date.now()}_${random}`: a token that no earlier call returned.
generateId(w) == w.idCount + 1

\* new Target(position, size): the reference of the new instance is
\* Len(w.heap) + 1.  createMesh builds a sphere of radius `size` at scale 1
\* (scale5 is five times the mesh scale).
Target_constructor(w, position, size) ==
  [w EXCEPT !.heap = Append(@,
                [id |-> generateId(w), position |-> position, size |-> size,
                 spawnTime |-> w.now, isActive |-> TRUE, hitTime |-> NULL,
                 isPooled |-> FALSE, geometryRadius |-> size, scale5 |-> 5,
                 visible |-> TRUE, disposeCalled |-> FALSE,
                 resourcesReleased |-> FALSE]),
            !.idCount = generateId(w)]

setPooled(w, t, pooled) == [w EXCEPT !.heap[t].isPooled = pooled]

onHit(w, t) ==
  IF ~w.heap[t].isActive THEN w
  ELSE [w EXCEPT !.heap[t].isActive = FALSE, !.heap[t].hitTime = w.now]

addToScene(w, t) == [w EXCEPT !.scene = @ \cup {t}]

removeFromScene(w, t) == [w EXCEPT !.scene = @ \ {t}]

Target_reset_SameId(w, t, position, size) ==
  [w EXCEPT !.heap[t].position = position,
            !.heap[t].size = size,
            !.heap[t].spawnTime = w.now,
            !.heap[t].isActive = TRUE,
            !.heap[t].hitTime = NULL,
            !.heap[t].scale5 = size,
            !.heap[t].visible = TRUE]

Target_reset(w, t, position, size) ==
  [w EXCEPT !.heap[t].id = generateId(w),
            !.heap[t].position = position,
            !.heap[t].size = size,
            !.heap[t].spawnTime = w.now,
            !.heap[t].isActive = TRUE,
            !.heap[t].hitTime = NULL,
            !.heap[t].scale5 = size,
            !.heap[t].visible = TRUE,
            !.idCount = generateId(w)]

deactivate(w, t) ==
  [w EXCEPT !.heap[t].isActive = FALSE, !.heap[t].visible = FALSE]

Target_dispose(w, t) ==
  [w EXCEPT !.heap[t].isActive = FALSE,
            !.heap[t].disposeCalled = TRUE,
            !.heap[t].resourcesReleased = @ \/ ~w.heap[t].isPooled]

\* ------------------------------------------------------------------------
\* TargetPool
\* ------------------------------------------------------------------------

RECURSIVE initializePool(_, _)
initializePool(w, size) ==
  IF size <= 0 THEN w
  ELSE LET w1 == Target_constructor(w, Origin, DefaultSize)
           t == Len(w1.heap)
           w2 == setPooled(w1, t, TRUE)
       IN initializePool([w2 EXCEPT !.pool = Append(@, t)], size - 1)

acquire(w, position, size) ==
  LET w1 == IF Len(w.pool) > 0
            THEN LET t == w.pool[Len(w.pool)]
                 IN [Target_reset([w EXCEPT !.pool = SubSeq(@, 1, Len(@) - 1)],
                                  t, position, size)
                       EXCEPT !.acquired = t]
            ELSE LET wc == Target_constructor(w, position, size)
                 IN [setPooled(wc, Len(wc.heap), TRUE)
                       EXCEPT !.acquired = Len(wc.heap)]
      w2 == [w1 EXCEPT !.activeTargets = @ \cup {w1.acquired}]
  IN addToScene(w2, w2.acquired)

release_NoGuard(w, target) ==
  LET w1 == [w EXCEPT !.activeTargets = @ \ {target}]
      w2 == deactivate(removeFromScene(w1, target), target)
  IN IF Len(w2.pool) < w2.maxPoolSize
     THEN [w2 EXCEPT !.pool = Append(@, target)]
     ELSE Target_dispose(w2, target)

release_NoBound(w, target) ==
  IF target \notin w.activeTargets THEN w
  ELSE LET w1 == [w EXCEPT !.activeTargets = @ \ {target}]
           w2 == deactivate(removeFromScene(w1, target), target)
       IN [w2 EXCEPT !.pool = Append(@, target)]

release_KeepsInScene(w, target) ==
  IF target \notin w.activeTargets THEN w
  ELSE LET w1 == [w EXCEPT !.activeTargets = @ \ {target}]
           w2 == deactivate(w1, target)
       IN IF Len(w2.pool) < w2.maxPoolSize
          THEN [w2 EXCEPT !.pool = Append(@, target)]
          ELSE Target_dispose(w2, target)

release_PushesAgain(w, target) ==
  LET w1 == [w EXCEPT !.activeTargets = @ \ {target}]
      w2 == deactivate(removeFromScene(w1, target), target)
  IN IF target \notin w.activeTargets THEN [w EXCEPT !.pool = Append(@, target)]
     ELSE IF Len(w2.pool) < w2.maxPoolSize
          THEN [w2 EXCEPT !.pool = Append(@, target)]
          ELSE Target_dispose(w2, target)

release(w, target) ==
  IF target \notin w.activeTargets THEN w
  ELSE LET w1 == [w EXCEPT !.activeTargets = @ \ {target}]
           w2 == deactivate(removeFromScene(w1, target), target)
       IN IF Len(w2.pool) < w2.maxPoolSize
          THEN [w2 EXCEPT !.pool = Append(@, target)]
          ELSE Target_dispose(w2, target)

getTotalCount(w) == Cardinality(w.activeTargets) + Len(w.pool)

RECURSIVE trimPool(_)
trimPool(w) ==
  IF Len(w.pool) > w.maxPoolSize
  THEN LET t == w.pool[Len(w.pool)]
       IN trimPool(Target_dispose([w EXCEPT !.pool = SubSeq(@, 1, Len(@) - 1)], t))
  ELSE w

setMaxPoolSize(w, size) ==
  trimPool([w EXCEPT !.maxPoolSize = Max(MinPoolSize, Min(MaxPoolSizeLimit, size))])

RECURSIVE releaseAll(_, _)
releaseAll(w, ts) ==
  IF ts = <<>> THEN w
  ELSE releaseAll(release(w, Head(ts)), Tail(ts))

RECURSIVE disposeAll(_, _)
disposeAll(w, ts) ==
  IF ts = <<>> THEN w
  ELSE disposeAll(Target_dispose(w, Head(ts)), Tail(ts))

\* Array.from(Set) lists a Set in insertion order; the order in which clear
\* releases the active targets is left open here (any enumeration).
SeqOfSet(S) ==
  CHOOSE q \in [1..Cardinality(S) -> S] : \A x \in S : \E i \in DOMAIN q : q[i] = x

clear_KeepsPool(w) ==
  LET w1 == releaseAll(w, SeqOfSet(w.activeTargets))
  IN disposeAll(w1, w1.pool)

clear(w) ==
  LET w1 == releaseAll(w, SeqOfSet(w.activeTargets))
      w2 == disposeAll(w1, w1.pool)
  IN [w2 EXCEPT !.pool = <<>>]

TargetPool_dispose(w) == clear(w)

RECURSIVE createPooled(_, _)
createPooled(w, n) ==
  IF n <= 0 THEN w
  ELSE LET w1 == Target_constructor(w, Origin, DefaultSize)
           t == Len(w1.heap)
       IN createPooled([setPooled(w1, t, TRUE) EXCEPT !.pool = Append(@, t)], n - 1)

preload(w, count) ==
  LET targetCount == Min(count, w.maxPoolSize)
      currentTotal == getTotalCount(w)
  IN IF currentTotal < targetCount
     THEN createPooled(w, targetCount - currentTotal)
     ELSE w

\* ------------------------------------------------------------------------
\* PerformanceManager
\* ------------------------------------------------------------------------

LOW == "low"
MEDIUM == "medium"
HIGH == "high"
AUTO == "auto"
QualityLevel == {LOW, MEDIUM, HIGH, AUTO}

\* window.devicePixelRatio, times ten
DevicePixelRatios == {20}

getQualitySettings(level) ==
  LET dpr == CHOOSE d \in DevicePixelRatios : TRUE
  IN CASE level = LOW ->
            [pixelRatio |-> 10, shadowMapSize |-> 512, antialias |-> FALSE,
             shadowsEnabled |-> FALSE, particleCount |-> 10, targetComplexity |-> 8]
       [] level = MEDIUM ->
            [pixelRatio |-> Min(dpr, 15), shadowMapSize |-> 1024, antialias |-> TRUE,
             shadowsEnabled |-> TRUE, particleCount |-> 25, targetComplexity |-> 16]
       [] OTHER ->
            [pixelRatio |-> Min(dpr, 20), shadowMapSize |-> 2048, antialias |-> TRUE,
             shadowsEnabled |-> TRUE, particleCount |-> 50, targetComplexity |-> 32]

\* A frame of deltaTime ms is the FPS sample 1000 / deltaTime; the window
\* holds the samples times 350, which is an integer for every frame time of
\* DeltaTimes.
DeltaTimes == {10, 35}
fpsOf(deltaTime) == (1000 * 350) \div deltaTime

RECURSIVE Sum(_)
Sum(q) == IF q = <<>> THEN 0 ELSE Head(q) + Sum(Tail(q))

\* getAverageFps() < fps and getAverageFps() > tenths / 10, on the window h
AverageBelow(h, fps) ==
  IF h = <<>> THEN 60 < fps ELSE Sum(h) < fps * 350 * Len(h)
AverageAbove10(h, tenths) ==
  IF h = <<>> THEN 600 > tenths ELSE Sum(h) * 10 > tenths * 350 * Len(h)

\* new PerformanceManager() then initialize(renderer), on a mobile or low-end
\* device or not; the engine registers its quality-change callback at once.
detectDeviceCapabilities(p, lowEnd) ==
  IF lowEnd
  THEN [p EXCEPT !.qualityLevel = MEDIUM, !.targetFps = 30, !.minFps = 20,
                 !.qualitySettings = getQualitySettings(MEDIUM)]
  ELSE [p EXCEPT !.qualityLevel = HIGH, !.targetFps = 60, !.minFps = 30,
                 !.qualitySettings = getQualitySettings(HIGH)]

PerfConstructed(lowEnd) ==
  detectDeviceCapabilities(
    [lastTime |-> 0, fpsHistory |-> <<>>, targetFps |-> 60, minFps |-> 30,
     qualityLevel |-> AUTO, qualitySettings |-> getQualitySettings(HIGH),
     autoAdjustEnabled |-> TRUE, lastPerformanceCheck |-> 0,
     isMonitoring |-> TRUE, notified |-> <<>>], lowEnd)

setQualityLevel_Silent(p, level) ==
  [p EXCEPT !.qualityLevel = level,
            !.qualitySettings = getQualitySettings(level)]

setQualityLevel(p, level) ==
  [p EXCEPT !.qualityLevel = level,
            !.qualitySettings = getQualitySettings(level),
            !.notified = Append(@, getQualitySettings(level))]

downgradeQuality_SkipsTier(p) ==
  CASE p.qualityLevel = HIGH -> setQualityLevel(p, LOW)
    [] p.qualityLevel = MEDIUM -> setQualityLevel(p, LOW)
    [] OTHER -> p

downgradeQuality(p) ==
  CASE p.qualityLevel = HIGH -> setQualityLevel(p, MEDIUM)
    [] p.qualityLevel = MEDIUM -> setQualityLevel(p, LOW)
    [] OTHER -> p

upgradeQuality(p) ==
  CASE p.qualityLevel = LOW -> setQualityLevel(p, MEDIUM)
    [] p.qualityLevel = MEDIUM -> setQualityLevel(p, HIGH)
    [] OTHER -> p

checkPerformanceAndAdjust(p) ==
  IF Len(p.fpsHistory) < MinSamples THEN p
  ELSE LET isPerformancePoor == AverageBelow(p.fpsHistory, p.minFps)
           isPerformanceGood == AverageAbove10(p.fpsHistory, p.targetFps * 9)
       IN IF isPerformancePoor /\ p.qualityLevel # LOW THEN downgradeQuality(p)
          ELSE IF isPerformanceGood /\ p.qualityLevel # HIGH THEN upgradeQuality(p)
          ELSE p

update(p, currentTime) ==
  IF ~p.isMonitoring THEN p
  ELSE LET deltaTime == currentTime - p.lastTime
           p1 == [p EXCEPT !.lastTime = currentTime]
       IN IF deltaTime > 0
          THEN LET pushed == Append(p1.fpsHistory, fpsOf(deltaTime))
                   p2 == [p1 EXCEPT !.fpsHistory =
                            IF Len(pushed) > WindowSize THEN Tail(pushed) ELSE pushed]
               IN IF p2.autoAdjustEnabled
                     /\ currentTime - p2.lastPerformanceCheck > CheckInterval
                  THEN [checkPerformanceAndAdjust(p2)
                          EXCEPT !.lastPerformanceCheck = currentTime]
                  ELSE p2
          ELSE p1

setAutoAdjust(p, enabled) == [p EXCEPT !.autoAdjustEnabled = enabled]

setTargetFps(p, fps) == [p EXCEPT !.targetFps = Max(15, Min(120, fps))]

setMinFps(p, fps) == [p EXCEPT !.minFps = Max(10, Min(60, fps))]

\* reset() at time t
PerformanceManager_reset(p, t) ==
  [p EXCEPT !.fpsHistory = <<>>, !.lastTime = t, !.lastPerformanceCheck = 0]

\* GameEngine.applyPerformanceSettings with the settings read from the
\* SettingsManager
applyPerformanceSettings(p, qualityLevel, autoAdjust, targetFps) ==
  setTargetFps(
    setAutoAdjust(IF qualityLevel # AUTO THEN setQualityLevel(p, qualityLevel) ELSE p,
                  autoAdjust),
    targetFps)

\* ------------------------------------------------------------------------
\* ScoreManager
\* ------------------------------------------------------------------------

\* reactionTime arguments of addHit in ms; NULL is an omitted argument
ReactionTimes == {NULL, 0, 500, 1000}

ScoreManager_constructor ==
  [totalScore |-> 0, hits |-> 0, misses |-> 0, bestStreak |-> 0,
   currentStreak |-> 0]

\* the value addHit returns, d being scoreData after the streak update
hitScoreOf(d, reactionTime) ==
  LET scoreMultiplier == 100
      timeBonusThreshold == 1000
      maxTimeBonus == 50
      timeBonus ==
        IF reactionTime # NULL /\ reactionTime # 0 /\ reactionTime < timeBonusThreshold
        THEN (maxTimeBonus * (timeBonusThreshold - reactionTime)) \div timeBonusThreshold
        ELSE 0
      streakBonus == d.currentStreak * 10
  IN scoreMultiplier + timeBonus + streakBonus

addHit_StreakBeforeIncrement(d, reactionTime) ==
  LET d1 == [d EXCEPT !.hits = @ + 1, !.currentStreak = @ + 1]
      d2 == [d1 EXCEPT !.bestStreak = IF d1.currentStreak > @ THEN d1.currentStreak ELSE @]
  IN [d2 EXCEPT !.totalScore = @ + hitScoreOf(d, reactionTime)]

addHit(d, reactionTime) ==
  LET d1 == [d EXCEPT !.hits = @ + 1, !.currentStreak = @ + 1]
      d2 == [d1 EXCEPT !.bestStreak = IF d1.currentStreak > @ THEN d1.currentStreak ELSE @]
  IN [d2 EXCEPT !.totalScore = @ + hitScoreOf(d2, reactionTime)]

addMiss(d) == [d EXCEPT !.misses = @ + 1, !.currentStreak = 0]

ScoreManager_reset(d) == ScoreManager_constructor

\* ------------------------------------------------------------------------
\* GameEngine: the game state machine over the target and score managers.
\* An engine value e holds the TargetManager world e.w, the ScoreManager data
\* e.d (with its call log e.log) and the engine's own fields e.g.
\* ------------------------------------------------------------------------

MENU_STATE == "menu"
WAITING_TO_START == "waiting_to_start"
PLAYING == "playing"
PAUSED == "paused"
ENDED == "ended"

GameEngine_constructor ==
  [currentState |-> MENU_STATE, gameTimer |-> 30, gameTimerInterval |-> NULL,
   gameTimers |-> {}]

\* ------------------------------------------------------------------------
\* State after construction
\* ------------------------------------------------------------------------

EmptyWorld ==
  [heap |-> <<>>, pool |-> <<>>, activeTargets |-> {},
   maxPoolSize |-> DefaultMaxPoolSize, scene |-> {}, idCount |-> 0,
   now |-> 0, targets |-> <<>>, maxTargets |-> 3, targetSize |-> 5,
   isSpawning |-> FALSE, spawnInterval |-> NULL, timers |-> {},
   TRAINING_AREA |-> [minX |-> -100, maxX |-> 100, minY |-> 5, maxY |-> 60,
                      minZ |-> -200, maxZ |-> -80],
   acquired |-> NULL, rnd |-> <<>>]

NoRet == [op |-> "new", target |-> NULL, hit |-> FALSE, arg |-> NULL]

InitWith(w) ==
  /\ heap = w.heap
  /\ pool = w.pool
  /\ activeTargets = w.activeTargets
  /\ maxPoolSize = w.maxPoolSize
  /\ scene = w.scene
  /\ idCount = w.idCount
  /\ idBase = w.idCount
  /\ now = w.now
  /\ targets = w.targets
  /\ maxTargets = w.maxTargets
  /\ targetSize = w.targetSize
  /\ isSpawning = w.isSpawning
  /\ spawnInterval = w.spawnInterval
  /\ timers = w.timers
  /\ TRAINING_AREA = w.TRAINING_AREA
  /\ ret = NoRet
  /\ clock = 0
  /\ lastAutoChange = NULL
  /\ prevQuality = "none"
  /\ calls = 0
  /\ scoreData = ScoreManager_constructor
  /\ scoreLog = <<>>
  /\ game = GameEngine_constructor

\* new TargetPool(scene, initialSize)
PoolInit ==
  /\ \E n \in InitialSizes : InitWith(initializePool(EmptyWorld, n))
  /\ perf = PerfConstructed(FALSE)

Bounded(w) == w.idCount - idBase <= MaxFresh

\* ------------------------------------------------------------------------
\* The pool on its own: its public methods called in any order
\* ------------------------------------------------------------------------

OnHit ==
  \E t \in activeTargets :
    /\ Commit(onHit(World, t))
    /\ ret' = [op |-> "onHit", target |-> t, hit |-> TRUE, arg |-> NULL]

Acquire ==
  \E a \in AcquireArgs :
    LET w == acquire(World, a[1], a[2])
    IN /\ Bounded(w)
       /\ Commit(w)
       /\ ret' = [op |-> "acquire", target |-> w.acquired, hit |-> FALSE,
                  arg |-> a]

\* The targets release is called with: every active one and, of those that
\* are not active, the top of the stack and the oldest evicted one.
Evicted == {t \in 1..Len(heap) : t \notin activeTargets /\ \A i \in 1..Len(pool) : pool[i] # t}

ReleaseArgs ==
  activeTargets
    \cup (IF pool = <<>> THEN {} ELSE {pool[Len(pool)]})
    \cup (IF Evicted = {} THEN {} ELSE {CHOOSE t \in Evicted : \A u \in Evicted : t <= u})

Release ==
  \E t \in ReleaseArgs :
    /\ Commit(release(World, t))
    /\ ret' = [op |-> "release", target |-> t, hit |-> FALSE, arg |-> NULL]

Preload ==
  \E n \in PreloadArgs :
    /\ Bounded(preload(World, n))
    /\ Commit(preload(World, n))
    /\ ret' = [op |-> "preload", target |-> NULL, hit |-> FALSE, arg |-> n]

SetMaxPoolSize ==
  \E n \in PoolSizeArgs :
    /\ Commit(setMaxPoolSize(World, n))
    /\ ret' = [op |-> "setMaxPoolSize", target |-> NULL, hit |-> FALSE, arg |-> n]

Clear ==
  /\ Commit(clear(World))
  /\ ret' = [op |-> "clear", target |-> NULL, hit |-> FALSE, arg |-> NULL]

PoolNext == OnHit \/ Acquire \/ Release \/ Preload \/ SetMaxPoolSize \/ Clear

PoolSpec == PoolInit /\ [][PoolNext]_vars

\* ------------------------------------------------------------------------
\* TargetManager
\* ------------------------------------------------------------------------

\* The Map `targets` is a sequence of entries in insertion order.
mapHas(m, id) == \E i \in 1..Len(m) : m[i].id = id

mapGet(m, id) == m[CHOOSE i \in 1..Len(m) : m[i].id = id].target

mapSet(m, id, t) ==
  IF mapHas(m, id)
  THEN [i \in 1..Len(m) |-> IF m[i].id = id THEN [id |-> id, target |-> t] ELSE m[i]]
  ELSE Append(m, [id |-> id, target |-> t])

mapDelete(m, id) == SelectSeq(m, LAMBDA e : e.id # id)

clampToBounds_XYOnly(w, position) ==
  <<Max(w.TRAINING_AREA.minX, Min(w.TRAINING_AREA.maxX, position[1])),
    Max(w.TRAINING_AREA.minY, Min(w.TRAINING_AREA.maxY, position[2])),
    position[3]>>

clampToBounds(w, position) ==
  <<Max(w.TRAINING_AREA.minX, Min(w.TRAINING_AREA.maxX, position[1])),
    Max(w.TRAINING_AREA.minY, Min(w.TRAINING_AREA.maxY, position[2])),
    Max(w.TRAINING_AREA.minZ, Min(w.TRAINING_AREA.maxZ, position[3]))>>

\* spawnTarget(position?): `position` is the caller's position or
\* NoPosition; the position generated otherwise is the next draw of w.rnd.
spawnTarget(w, position) ==
  LET generated == position = NoPosition
      targetPosition == clampToBounds(w, IF generated THEN Head(w.rnd) ELSE position)
      w1 == acquire(IF generated THEN [w EXCEPT !.rnd = Tail(@)] ELSE w,
                    targetPosition, w.targetSize)
  IN [w1 EXCEPT !.targets = mapSet(@, w1.heap[w1.acquired].id, w1.acquired)]

RECURSIVE spawnTimes(_, _)
spawnTimes(w, n) ==
  IF n <= 0 THEN w ELSE spawnTimes(spawnTarget(w, NoPosition), n - 1)

setupInitialTargets(w) == spawnTimes(w, w.maxTargets)

removeTarget_KeepsEntry(w, targetId) ==
  IF mapHas(w.targets, targetId)
  THEN release(w, mapGet(w.targets, targetId))
  ELSE w

removeTarget(w, targetId) ==
  IF mapHas(w.targets, targetId)
  THEN [release(w, mapGet(w.targets, targetId))
          EXCEPT !.targets = mapDelete(@, targetId)]
  ELSE w

\* getActiveTargets(): the tracked targets with isActive, in Map order
getActiveTargets(w) ==
  LET act == SelectSeq(w.targets, LAMBDA e : w.heap[e.target].isActive)
  IN [i \in 1..Len(act) |-> act[i].target]

getTargetCount(w) == Len(w.targets)

getActiveTargetCount(w) == Len(getActiveTargets(w))

checkHit_NoReplacement(w, first) ==
  IF first # NULL /\ w.heap[first].isActive
  THEN LET w1 == onHit(w, first)
       IN removeTarget(w1, w1.heap[first].id)
  ELSE w

\* checkHit: `first` is intersects[0].object.userData.target, the nearest
\* target mesh the ray meets among targetMeshes, or NULL when it meets none.
checkHit(w, first) ==
  IF first # NULL /\ w.heap[first].isActive
  THEN LET w1 == onHit(w, first)
           w2 == removeTarget(w1, w1.heap[first].id)
       IN IF w2.isSpawning THEN spawnTarget(w2, NoPosition) ELSE w2
  ELSE w

RECURSIVE removeTail(_, _, _)
removeTail(w, ts, i) ==
  IF i > Len(ts) THEN w
  ELSE removeTail(removeTarget(w, w.heap[ts[i]].id), ts, i + 1)

setMaxTargets_CullsOldest(w, count) ==
  LET w1 == [w EXCEPT !.maxTargets = Max(1, Min(10, count))]
      currentActive == getActiveTargetCount(w1)
      act == getActiveTargets(w1)
      newestFirst == [i \in 1..Len(act) |-> act[Len(act) + 1 - i]]
  IN IF currentActive < w1.maxTargets
     THEN spawnTimes(w1, w1.maxTargets - currentActive)
     ELSE IF currentActive > w1.maxTargets
          THEN removeTail(w1, newestFirst, w1.maxTargets + 1)
          ELSE w1

setMaxTargets(w, count) ==
  LET w1 == [w EXCEPT !.maxTargets = Max(1, Min(10, count))]
      currentActive == getActiveTargetCount(w1)
  IN IF currentActive < w1.maxTargets
     THEN spawnTimes(w1, w1.maxTargets - currentActive)
     ELSE IF currentActive > w1.maxTargets
          THEN removeTail(w1, getActiveTargets(w1), w1.maxTargets + 1)
          ELSE w1

\* generateRandomPosition(): u[1..3] are the three Math.random() draws, in
\* tenths (0..9)
generateRandomPosition(w, u) ==
  LET a == w.TRAINING_AREA
  IN <<a.minX + (u[1] * (a.maxX - a.minX)) \div 10,
       a.minY + (u[2] * (a.maxY - a.minY)) \div 10,
       a.minZ + (u[3] * (a.maxZ - a.minZ)) \div 10>>

\* generatePositionInView(): cameraDirection is the camera's unit direction in
\* tenths; u[1..3] are the three Math.random() draws, in tenths (0..9)
generatePositionInView(w, cameraDirection, u) ==
  LET a == w.TRAINING_AREA
      targetZ == -150
      distanceToWall == 15
      lookAtX == cameraDirection[1] * distanceToWall
      lookAtY == 16 + cameraDirection[2] * distanceToWall
      spreadX == 3
      spreadY == 2
  IN <<Max(a.minX, Min(a.maxX, lookAtX + (u[1] - 5) * spreadX)),
       Max(a.minY, Min(a.maxY, lookAtY + (u[2] - 5) * spreadY)),
       targetZ + (u[3] - 5) * 4>>

setSpawnRadius_Unclamped(w, radius) ==
  [w EXCEPT !.TRAINING_AREA =
     [@ EXCEPT !.minX = -radius, !.maxX = radius,
               !.minZ = -radius - 50, !.maxZ = -50]]

\* setSpawnRadius(radius), radius in tenths
setSpawnRadius(w, radius) ==
  LET clampedRadius == Max(30, Min(150, radius))
  IN [w EXCEPT !.TRAINING_AREA =
        [@ EXCEPT !.minX = -clampedRadius, !.maxX = clampedRadius,
                  !.minZ = -clampedRadius - 50, !.maxZ = -50]]

setTargetSize(w, size) == [w EXCEPT !.targetSize = Max(1, Min(20, size))]

RECURSIVE releaseEntries(_, _)
releaseEntries(w, es) ==
  IF es = <<>> THEN w
  ELSE releaseEntries(release(w, Head(es).target), Tail(es))

clearAllTargets(w) ==
  [releaseEntries(w, w.targets) EXCEPT !.targets = <<>>]

\* window.setInterval returns a handle no live timer has
setInterval(w) ==
  LET h == 1 + Cardinality(w.timers)
  IN [w EXCEPT !.timers = @ \cup {h}, !.spawnInterval = h]

startSpawning_StacksTimer(w) ==
  IF w.isSpawning THEN setInterval(w)
  ELSE setInterval(setupInitialTargets([w EXCEPT !.isSpawning = TRUE]))

startSpawning(w) ==
  IF w.isSpawning THEN w
  ELSE setInterval(setupInitialTargets([w EXCEPT !.isSpawning = TRUE]))

stopSpawning_KeepsTimer(w) ==
  clearAllTargets([w EXCEPT !.isSpawning = FALSE, !.spawnInterval = NULL])

stopSpawning(w) ==
  LET w1 == [w EXCEPT !.isSpawning = FALSE]
      w2 == IF w1.spawnInterval # NULL
            THEN [w1 EXCEPT !.timers = @ \ {w1.spawnInterval},
                            !.spawnInterval = NULL]
            ELSE w1
  IN clearAllTargets(w2)

TargetManager_reset(w) == stopSpawning(clearAllTargets(w))

TargetManager_dispose(w) == TargetPool_dispose(clearAllTargets(stopSpawning(w)))

spawnIntervalCallback_OffByOne(w) ==
  IF getActiveTargetCount(w) + 1 < w.maxTargets THEN spawnTarget(w, NoPosition) ELSE w

\* the callback of the interval set by startSpawning
spawnIntervalCallback(w) ==
  IF getActiveTargetCount(w) < w.maxTargets THEN spawnTarget(w, NoPosition) ELSE w

\* new TargetManager(scene, camera)
Init ==
  /\ InitWith(initializePool(EmptyWorld, ManagerPoolSize))
  /\ perf = PerfConstructed(FALSE)

BoundedM(w) == w.idCount - idBase <= MaxSpawned

\* the draws of the position generators during one call that spawns n targets
Draws(n) ==
  IF idCount - idBase + n > MaxSpawned THEN {} ELSE [1..n -> RandomPositions]

Ret(op, target, hit, arg) == [op |-> op, target |-> target, hit |-> hit, arg |-> arg]

\* a call of a TargetManager method that leaves w
Call(w, op, target, hit, arg) ==
  /\ ret.op # "dispose"
  /\ BoundedM(w)
  /\ Commit(w)
  /\ ret' = Ret(op, target, hit, arg)

Tick ==
  /\ now < MaxNow
  /\ now' = now + 1
  /\ ret' = Ret("tick", NULL, FALSE, NULL)
  /\ UNCHANGED <<poolVars, managerVars, perfVars, scoreVars, game>>

SpawnTarget ==
  \/ \E p \in SuppliedPositions :
       LET w == spawnTarget(World, p)
       IN Call(w, "spawnTarget", w.acquired, FALSE, NULL)
  \/ \E r \in Draws(1) :
       LET w == spawnTarget([World EXCEPT !.rnd = r], NoPosition)
       IN Call(w, "spawnTarget", w.acquired, FALSE, NULL)

TrackedIds == {targets[i].id : i \in 1..Len(targets)}

RemoveTarget ==
  \E id \in TrackedIds \cup {0} :
    Call(removeTarget(World, id), "removeTarget", NULL, FALSE, id)

\* a shot: the ray meets one of the active tracked targets first, or none
CheckHit ==
  \E first \in {targets[i].target : i \in {j \in 1..Len(targets) : heap[targets[j].target].isActive}}
                \cup {NULL} :
    \E r \in Draws(IF first # NULL /\ isSpawning THEN 1 ELSE 0) :
      Call(checkHit([World EXCEPT !.rnd = r], first), "checkHit", first,
           first # NULL, NULL)

SetMaxTargets ==
  \E n \in MaxTargetsArgs :
    \E r \in Draws(Max(0, Max(1, Min(10, n)) - getActiveTargetCount(World))) :
      Call(setMaxTargets([World EXCEPT !.rnd = r], n), "setMaxTargets", NULL, FALSE, n)

ClearAllTargets == Call(clearAllTargets(World), "clearAllTargets", NULL, FALSE, NULL)

Reset == Call(TargetManager_reset(World), "reset", NULL, FALSE, NULL)

StartSpawning ==
  \E r \in Draws(IF isSpawning THEN 0 ELSE maxTargets) :
    Call(startSpawning([World EXCEPT !.rnd = r]), "startSpawning", NULL, FALSE, NULL)

StopSpawning == Call(stopSpawning(World), "stopSpawning", NULL, FALSE, NULL)

Dispose == Call(TargetManager_dispose(World), "dispose", NULL, FALSE, NULL)

ManagerSetMaxPoolSize ==
  \E n \in ManagerPoolSizeArgs :
    Call(setMaxPoolSize(World, n), "setMaxPoolSize", NULL, FALSE, n)

\* a live interval timer fires
TimerTick ==
  \E h \in timers :
    \E r \in Draws(IF getActiveTargetCount(World) < maxTargets THEN 1 ELSE 0) :
      Call(spawnIntervalCallback([World EXCEPT !.rnd = r]), "timer", NULL, FALSE, h)

Next ==
  \/ SpawnTarget
  \/ RemoveTarget
  \/ CheckHit
  \/ SetMaxTargets
  \/ ClearAllTargets
  \/ Reset
  \/ StartSpawning
  \/ StopSpawning
  \/ Dispose
  \/ TimerTick

\* The director's lifecycle: every TargetManager method but the pool-size
\* pass-through, with the clock standing still.
Spec == Init /\ [][Next]_vars

HitNext ==
  \/ Tick
  \/ SpawnTarget
  \/ CheckHit
  \/ StartSpawning
  \/ ManagerSetMaxPoolSize

\* Shooting: spawning, shots, the clock and the pool capacity.
HitSpec == Init /\ [][HitNext]_vars

\* ------------------------------------------------------------------------
\* The quality controller: frames, settings and resets in any order
\* ------------------------------------------------------------------------

SettingsTargetFps == {30, 60, 120}       \* SettingsData.targetFps
QualityLevelArgs == {AUTO, LOW}          \* arguments of setQualityLevel
TargetFpsArgs == {30}                    \* arguments of setTargetFps
MinFpsArgs == {30}                       \* arguments of setMinFps

targetVars == <<poolVars, now, managerVars>>

PerfInit ==
  /\ InitWith(EmptyWorld)
  /\ \E lowEnd \in BOOLEAN : perf = PerfConstructed(lowEnd)

\* a call of a PerformanceManager method that leaves p
PerfCall(p, op, arg) ==
  /\ perf' = p
  /\ ret' = Ret(op, NULL, FALSE, arg)
  /\ UNCHANGED <<targetVars, scoreVars, game>>

Called == [perf EXCEPT !.notified = <<>>]

\* a frame: the game loop calls update(currentTime)
Frame(dt, maxClock) ==
  /\ clock + dt <= maxClock
  /\ LET p == update(Called, clock + dt)
     IN /\ PerfCall(p, "update", dt)
        /\ clock' = clock + dt
        /\ IF p.qualityLevel # perf.qualityLevel
           THEN lastAutoChange' = clock + dt /\ prevQuality' = perf.qualityLevel
           ELSE UNCHANGED <<lastAutoChange, prevQuality>>
        /\ UNCHANGED calls

Update == \E dt \in DeltaTimes : Frame(dt, MaxClock)

\* a setter or reset call
Setter(p, op, arg) ==
  /\ calls < MaxCalls
  /\ calls' = calls + 1
  /\ PerfCall(p, op, arg)
  /\ UNCHANGED <<clock, lastAutoChange, prevQuality>>

SetQualityLevel ==
  \E level \in QualityLevelArgs :
    Setter(setQualityLevel(Called, level), "setQualityLevel", level)

SetAutoAdjust ==
  \E enabled \in BOOLEAN :
    Setter(setAutoAdjust(Called, enabled), "setAutoAdjust", enabled)

SetTargetFps ==
  \E fps \in TargetFpsArgs :
    Setter(setTargetFps(Called, fps), "setTargetFps", fps)

SetMinFps ==
  \E fps \in MinFpsArgs :
    Setter(setMinFps(Called, fps), "setMinFps", fps)

PerfReset == Setter(PerformanceManager_reset(Called, clock), "reset", NULL)

PerfNext ==
  \/ Update
  \/ SetQualityLevel
  \/ SetAutoAdjust
  \/ SetTargetFps
  \/ SetMinFps
  \/ PerfReset

PerfSpec == PerfInit /\ [][PerfNext]_vars

\* The controller under a constant frame time: the settings are applied once,
\* then every frame takes the same time.
SteadyInit ==
  /\ InitWith(EmptyWorld)
  /\ \E lowEnd \in BOOLEAN, level \in QualityLevel, fps \in SettingsTargetFps :
       perf = [applyPerformanceSettings(PerfConstructed(lowEnd), level, TRUE, fps)
                 EXCEPT !.notified = <<>>]

\* the frame time of the first frame is the frame time of every frame
SteadyFrame ==
  \E dt \in DeltaTimes :
    /\ ret.op = "update" => ret.arg = dt
    /\ Frame(dt, SteadyMaxClock)

SteadyNext == SteadyFrame

SteadySpec == SteadyInit /\ [][SteadyNext]_vars

\* ------------------------------------------------------------------------
\* Resizing the target count: setMaxTargets over its whole range, with
\* targets shot in between, the director staying Idle
\* ------------------------------------------------------------------------

ResizeArgs == {0, 2, 11}                 \* arguments of setMaxTargets

Resize(w, op, target, hit, arg) ==
  /\ w.idCount - idBase <= MaxResized
  /\ Commit(w)
  /\ ret' = Ret(op, target, hit, arg)

ResizeSetMaxTargets ==
  \E n \in ResizeArgs :
    \E r \in [1..Max(0, Max(1, Min(10, n)) - getActiveTargetCount(World))
                -> RandomPositions] :
      Resize(setMaxTargets([World EXCEPT !.rnd = r], n), "setMaxTargets", NULL, FALSE, n)

\* a shot that hits the oldest active target
ResizeCheckHit ==
  LET act == getActiveTargets(World)
  IN /\ act # <<>>
     /\ \E first \in {act[1]} :
          Resize(checkHit(World, first), "checkHit", first, TRUE, NULL)

ResizeNext ==
  \/ ResizeSetMaxTargets
  \/ ResizeCheckHit

ResizeSpec == Init /\ [][ResizeNext]_vars

\* ------------------------------------------------------------------------
\* The backstop timer: targets removed while Spawning, and the interval
\* callback, which the host keeps firing while the handle is live
\* ------------------------------------------------------------------------

\* the ids the timer needs to refill the count after a call stay within the bound
Refillable(w) ==
  (w.idCount - idBase) + Max(0, w.maxTargets - getActiveTargetCount(w)) <= MaxBackstop

Backstop(w, op, target, arg) ==
  /\ Refillable(w)
  /\ Commit(w)
  /\ ret' = Ret(op, target, FALSE, arg)

BackstopSpawnTarget ==
  \E r \in [1..1 -> RandomPositions] :
    LET w == spawnTarget([World EXCEPT !.rnd = r], NoPosition)
    IN Backstop(w, "spawnTarget", w.acquired, NULL)

BackstopStartSpawning ==
  \E r \in [1..(IF isSpawning THEN 0 ELSE maxTargets) -> RandomPositions] :
    Backstop(startSpawning([World EXCEPT !.rnd = r]), "startSpawning", NULL, NULL)

BackstopRemoveTarget ==
  \E id \in TrackedIds :
    Backstop(removeTarget(World, id), "removeTarget", NULL, id)

BackstopClearAllTargets ==
  Backstop(clearAllTargets(World), "clearAllTargets", NULL, NULL)

\* a live interval timer fires; the step returns the target it spawned, if any
BackstopTimerTick ==
  \E h \in timers :
    \E r \in [1..(IF getActiveTargetCount(World) < maxTargets THEN 1 ELSE 0)
                -> RandomPositions] :
      \E w \in {spawnIntervalCallback([World EXCEPT !.rnd = r])} :
        Backstop(w, "timer", w.acquired, h)

BackstopNext ==
  \/ BackstopSpawnTarget
  \/ BackstopStartSpawning
  \/ BackstopRemoveTarget
  \/ BackstopClearAllTargets
  \/ BackstopTimerTick

\* setInterval fires its callback again and again until clearInterval
BackstopSpec == Init /\ [][BackstopNext]_vars /\ WF_vars(BackstopTimerTick)

\* ------------------------------------------------------------------------
\* Shots: the ray of a click against the active targets and the scene
\* ------------------------------------------------------------------------

\* What the raycaster finds along one ray: for each target mesh tested the
\* distance of the intersection (tenths) or NULL, and the nearest point where
\* the ray meets anything in the scene, or NoPosition.
RayDistances == {NULL, 30, 60}
RayOrigin == <<0, 16, 0>>
RayDirections == {<<0, 0, -1>>}
ScenePoints == {NoPosition, <<0, 16, -250>>}

Rays(w) ==
  [dist : [{t \in 1..Len(w.heap) : \E i \in 1..Len(w.targets) : w.targets[i].target = t}
             -> RayDistances],
   direction : RayDirections,
   scenePoint : ScenePoints]

\* Raycaster.intersectObjects(meshes): the meshes the ray meets, nearest
\* first; the sort is stable, so meshes at equal distance keep their order.
intersectObjects_Unsorted(meshes, dist) ==
  SelectSeq(meshes, LAMBDA t : dist[t] # NULL)

RECURSIVE intersectObjects(_, _)
intersectObjects(meshes, dist) ==
  LET met == SelectSeq(meshes, LAMBDA t : dist[t] # NULL)
  IN IF met = <<>> THEN <<>>
     ELSE LET k == CHOOSE i \in 1..Len(met) :
                     /\ \A j \in 1..Len(met) : dist[met[i]] <= dist[met[j]]
                     /\ \A j \in 1..(i - 1) : dist[met[j]] > dist[met[i]]
              rest == [i \in 1..(Len(met) - 1) |-> IF i < k THEN met[i] ELSE met[i + 1]]
          IN <<met[k]>> \o intersectObjects(rest, dist)

\* the point at `distance` tenths along the ray
PointAlong(ray, distance) ==
  <<RayOrigin[1] + distance * ray.direction[1],
    RayOrigin[2] + distance * ray.direction[2],
    RayOrigin[3] + distance * ray.direction[3]>>

calculateMissPoint_NoFallback(ray) == ray.scenePoint

calculateMissPoint(ray) ==
  IF ray.scenePoint # NoPosition THEN ray.scenePoint ELSE PointAlong(ray, 100)

\* intersects[0].object.userData.target for the ray, or NULL
firstHit(w, ray) ==
  LET intersects == intersectObjects(getActiveTargets(w), ray.dist)
  IN IF intersects = <<>> THEN NULL ELSE intersects[1]

\* the hitPoint of the result of checkHit
hitPointOf(w, ray) ==
  LET first == firstHit(w, ray)
  IN IF first # NULL /\ w.heap[first].isActive
     THEN PointAlong(ray, ray.dist[first])
     ELSE calculateMissPoint(ray)

\* checkHit(mouseX, mouseY, ...) for a click whose ray is `ray`
Shoot ==
  \E ray \in Rays(World) :
    LET first == firstHit(World, ray)
    IN \* the scene is raycast only when the shot missed the targets
       /\ first # NULL => ray.scenePoint = NoPosition
       /\ \E r \in Draws(IF first # NULL /\ isSpawning THEN 1 ELSE 0) :
            Call(checkHit([World EXCEPT !.rnd = r], first), "checkHit", first,
                 first # NULL,
                 [dist |-> ray.dist, point |-> hitPointOf(World, ray)])

ShotNext ==
  \/ SpawnTarget
  \/ StartSpawning
  \/ Shoot

ShotSpec == Init /\ [][ShotNext]_vars

\* ------------------------------------------------------------------------
\* Placement: where spawnTarget puts a target, under a changing spawn radius
\* ------------------------------------------------------------------------

\* camera directions: ahead, straight up, straight down, away from the spawn
\* area, to the right (unit vectors in tenths)
CameraDirections ==
  {<<0, 0, -10>>, <<0, 10, 0>>, <<0, -10, 0>>, <<0, 0, 10>>, <<10, 0, 0>>}
RandomDraws == {<<0, 0, 0>>, <<9, 9, 9>>, <<5, 0, 9>>}
CallerPositions == {<<0, 16, -150>>, <<500, -20, 0>>, <<-500, 900, -900>>}
RadiusArgs == {-10, 10, 100, 200}

Place(w, op, target, arg) ==
  /\ w.idCount - idBase <= MaxPlaced
  /\ Commit(w)
  /\ ret' = Ret(op, target, FALSE, arg)

\* spawnTarget(position)
PlaceSupplied ==
  \E p \in CallerPositions :
    \E w \in {spawnTarget(World, p)} : Place(w, "spawnTarget", w.acquired, p)

\* spawnTarget() with Math.random() < 0.7
PlaceInView ==
  \E c \in CameraDirections, u \in RandomDraws :
    \E w \in {spawnTarget([World EXCEPT !.rnd = <<generatePositionInView(World, c, u)>>],
                          NoPosition)} :
      Place(w, "spawnTarget", w.acquired, c)

\* spawnTarget() with Math.random() >= 0.7
PlaceRandom ==
  \E u \in RandomDraws :
    \E w \in {spawnTarget([World EXCEPT !.rnd = <<generateRandomPosition(World, u)>>],
                          NoPosition)} :
      Place(w, "spawnTarget", w.acquired, u)

SetSpawnRadius ==
  \E radius \in RadiusArgs :
    Place(setSpawnRadius(World, radius), "setSpawnRadius", NULL, radius)

PlaceNext ==
  \/ PlaceSupplied
  \/ PlaceInView
  \/ PlaceRandom
  \/ SetSpawnRadius

PlaceSpec == Init /\ [][PlaceNext]_vars

\* ------------------------------------------------------------------------
\* Ignored requests: releasing a target that is not active, removing an id
\* that is not tracked
\* ------------------------------------------------------------------------

\* ids removeTarget is called with: the tracked ones, ids of targets that
\* were removed before (now in the pool), and an id no target ever had
RemoveArgs == TrackedIds \cup {heap[pool[i]].id : i \in 1..Len(pool)} \cup {0}

IgnoreRemoveTarget ==
  \E id \in RemoveArgs :
    Call(removeTarget(World, id), "removeTarget", NULL, FALSE, id)

\* targetPool.release(t) for a target that was already released: the one on
\* top of the pool, or one the pool has disposed of
IgnoreRelease ==
  \E t \in ReleaseArgs \ activeTargets :
    Call(release(World, t), "release", t, FALSE, NULL)

IgnoreNext ==
  \/ SpawnTarget
  \/ IgnoreRemoveTarget
  \/ IgnoreRelease
  \/ ManagerSetMaxPoolSize

IgnoreSpec == Init /\ [][IgnoreNext]_vars

\* ------------------------------------------------------------------------
\* Quality notifications reaching the target manager during play
\* ------------------------------------------------------------------------

handleQualityChange_Unhalved(w, settings) ==
  setMaxPoolSize(w, settings.particleCount)

\* GameEngine.handleQualityChange(settings): what it does to the target
\* manager (setTargetComplexity only logs)
handleQualityChange(w, settings) ==
  setMaxPoolSize(w, settings.particleCount \div 2)

\* the PerformanceManager notifies the settings of the level it was set to
QualityChange ==
  \E level \in QualityLevel :
    Call(handleQualityChange(World, getQualitySettings(level)),
         "qualityChange", NULL, FALSE, level)

QualityNext ==
  \/ QualityChange
  \/ CheckHit
  \/ TimerTick
  \/ StartSpawning
  \/ StopSpawning

QualitySpec == Init /\ [][QualityNext]_vars

\* ------------------------------------------------------------------------
\* The ScoreManager on its own: addHit, addMiss and reset in any order
\* ------------------------------------------------------------------------

\* a call of a ScoreManager method that leaves d and returned `value`
ScoreCall(d, op, arg, value) ==
  /\ Len(scoreLog) < MaxShots
  /\ scoreData' = d
  /\ scoreLog' = Append(scoreLog, [op |-> op, value |-> value])
  /\ ret' = Ret(op, NULL, op = "addHit", arg)
  /\ UNCHANGED <<targetVars, perfVars, game>>

AddHit ==
  \E reactionTime \in ReactionTimes :
    \E d \in {addHit(scoreData, reactionTime)} :
      ScoreCall(d, "addHit", reactionTime, d.totalScore - scoreData.totalScore)

AddMiss == ScoreCall(addMiss(scoreData), "addMiss", NULL, NULL)

ScoreReset ==
  /\ scoreLog # <<>>
  /\ scoreData' = ScoreManager_reset(scoreData)
  /\ scoreLog' = <<>>
  /\ ret' = Ret("scoreReset", NULL, FALSE, NULL)
  /\ UNCHANGED <<targetVars, perfVars, game>>

ScoreNext ==
  \/ AddHit
  \/ AddMiss
  \/ ScoreReset

ScoreSpec == Init /\ [][ScoreNext]_vars

\* ------------------------------------------------------------------------
\* Tracking: the director's operations during play, with the pool-size
\* pass-through
\* ------------------------------------------------------------------------

\* the targets spawned so far are within the budget of this specification
Tracked == idCount - idBase <= MaxTracked

TrackNext ==
  \/ SpawnTarget /\ Tracked'
  \/ RemoveTarget /\ Tracked'
  \/ CheckHit /\ Tracked'
  \/ SetMaxTargets /\ Tracked'
  \/ ClearAllTargets /\ Tracked'
  \/ StartSpawning /\ Tracked'
  \/ StopSpawning /\ Tracked'
  \/ ManagerSetMaxPoolSize /\ Tracked'
  \/ TimerTick /\ Tracked'

TrackSpec == Init /\ [][TrackNext]_vars

\* ------------------------------------------------------------------------
\* The GameEngine: menu, waiting, playing, paused, ended
\* ------------------------------------------------------------------------

startGameTimer(e) ==
  LET h == 1 + Cardinality(e.g.gameTimers)
  IN [e EXCEPT !.g.gameTimers = @ \cup {h}, !.g.gameTimerInterval = h]

stopGameTimer(e) ==
  IF e.g.gameTimerInterval # NULL
  THEN [e EXCEPT !.g.gameTimers = @ \ {e.g.gameTimerInterval},
                 !.g.gameTimerInterval = NULL]
  ELSE e

startNewSession(e) ==
  [e EXCEPT !.d = ScoreManager_reset(@), !.log = <<>>,
            !.w = TargetManager_reset(@)]

startGame(e) ==
  IF e.g.currentState \in {MENU_STATE, ENDED}
  THEN startNewSession([e EXCEPT !.g.currentState = WAITING_TO_START,
                                 !.g.gameTimer = 30])
  ELSE e

actuallyStartGame_KeepsWaiting(e) ==
  IF e.g.currentState = WAITING_TO_START
  THEN LET e1 == startGameTimer(e)
       IN [e1 EXCEPT !.w = startSpawning(@)]
  ELSE e

actuallyStartGame(e) ==
  IF e.g.currentState = WAITING_TO_START
  THEN LET e1 == startGameTimer([e EXCEPT !.g.currentState = PLAYING])
       IN [e1 EXCEPT !.w = startSpawning(@)]
  ELSE e

pauseGame(e) ==
  IF e.g.currentState = PLAYING
  THEN stopGameTimer([e EXCEPT !.g.currentState = PAUSED])
  ELSE e

resumeGame(e) ==
  IF e.g.currentState = PAUSED
  THEN startGameTimer([e EXCEPT !.g.currentState = PLAYING])
  ELSE e

endGame(e) ==
  IF e.g.currentState \in {PLAYING, PAUSED}
  THEN LET e1 == stopGameTimer([e EXCEPT !.g.currentState = ENDED])
       IN [e1 EXCEPT !.w = stopSpawning(@)]
  ELSE e

returnToMenu(e) ==
  LET e1 == stopGameTimer([e EXCEPT !.g.currentState = MENU_STATE])
  IN startNewSession([e1 EXCEPT !.g.gameTimer = 30])

\* the callback of the game timer's interval
gameTimerCallback(e) ==
  LET e1 == [e EXCEPT !.g.gameTimer = @ - 1]
  IN IF e1.g.gameTimer <= 0 THEN endGame(e1) ELSE e1

\* handleClick(position): `first` is the nearest active target on the ray of
\* the click, or NULL; e.invoked tells whether checkHit was called
handleClick(e, first) ==
  IF e.g.currentState = WAITING_TO_START
  THEN actuallyStartGame(e)
  ELSE IF e.g.currentState # PLAYING THEN e
  ELSE LET w1 == checkHit(e.w, first)
           hit == first # NULL /\ e.w.heap[first].isActive
           reactionTime == w1.now - w1.heap[first].spawnTime
       IN IF hit
          THEN LET d1 == addHit(e.d, reactionTime)
               IN [e EXCEPT !.w = w1, !.d = d1, !.invoked = TRUE,
                            !.log = Append(@, [op |-> "addHit",
                                               value |-> d1.totalScore - e.d.totalScore])]
          ELSE [e EXCEPT !.w = w1, !.d = addMiss(@), !.invoked = TRUE,
                         !.log = Append(@, [op |-> "addMiss", value |-> NULL])]

Engine == [w |-> World, d |-> scoreData, log |-> scoreLog, g |-> game,
           invoked |-> FALSE]

\* an engine handler that leaves e
EngineCall(e, op, target, hit, arg) ==
  /\ e.w.idCount - idBase <= MaxGameSpawned
  /\ Len(e.log) <= MaxClicks
  /\ CommitTargets(e.w)
  /\ scoreData' = e.d
  /\ scoreLog' = e.log
  /\ game' = e.g
  /\ ret' = Ret(op, target, hit, arg)

\* the draws of a handler that calls startSpawning when `starts`
StartDraws(starts) ==
  [1..(IF starts /\ ~isSpawning THEN maxTargets ELSE 0) -> RandomPositions]

StartGame == EngineCall(startGame(Engine), "startGame", NULL, FALSE, NULL)

PauseGame == EngineCall(pauseGame(Engine), "pauseGame", NULL, FALSE, NULL)

ResumeGame == EngineCall(resumeGame(Engine), "resumeGame", NULL, FALSE, NULL)

EndGame == EngineCall(endGame(Engine), "endGame", NULL, FALSE, NULL)

ReturnToMenu == EngineCall(returnToMenu(Engine), "returnToMenu", NULL, FALSE, NULL)

\* a click: in WAITING_TO_START it starts the game, in PLAYING it is a shot
Click ==
  \E first \in {targets[i].target : i \in 1..Len(targets)} \cup {NULL} :
    \E r \in IF game.currentState = WAITING_TO_START
             THEN StartDraws(TRUE)
             ELSE [1..(IF first # NULL /\ isSpawning /\ game.currentState = PLAYING
                       THEN 1 ELSE 0) -> RandomPositions] :
      \E e \in {handleClick([Engine EXCEPT !.w.rnd = r], first)} :
        EngineCall(e, "click", first, first # NULL /\ e.invoked,
                   IF e.invoked THEN "checkHit" ELSE game.currentState)

\* the game timer's interval fires
GameTimerTick ==
  \E h \in game.gameTimers :
    EngineCall(gameTimerCallback(Engine), "gameTimer", NULL, FALSE, h)

\* the backstop interval of the target manager fires
EngineBackstopTick ==
  \E h \in timers :
    \E r \in [1..(IF getActiveTargetCount(World) < maxTargets THEN 1 ELSE 0)
                -> RandomPositions] :
      EngineCall([Engine EXCEPT !.w = spawnIntervalCallback([World EXCEPT !.rnd = r])],
                 "timer", NULL, FALSE, h)

EngineNext ==
  \/ StartGame
  \/ PauseGame
  \/ ResumeGame
  \/ EndGame
  \/ ReturnToMenu
  \/ Click
  \/ GameTimerTick
  \/ EngineBackstopTick

EngineSpec == Init /\ [][EngineNext]_vars

\* ------------------------------------------------------------------------
\* Properties
\* ------------------------------------------------------------------------

InPool(t) == \E i \in 1..Len(pool) : pool[i] = t

ActiveCount == getActiveTargetCount(World)

\* C1: every Target the pool created and has not disposed is in exactly one
\* of `pool` and `activeTargets`: never in both, never in neither, and never
\* twice in `pool`.
C1_PoolPartition ==
  \A t \in 1..Len(heap) :
    /\ ~(t \in activeTargets /\ InPool(t))
    /\ ~heap[t].disposeCalled => (t \in activeTargets \/ InPool(t))
    /\ Cardinality({i \in 1..Len(pool) : pool[i] = t}) <= 1

\* a target went back to the stack while another one is still in play
C1_Witness ==
  /\ ret.op = "release"
  /\ InPool(ret.target)
  /\ activeTargets # {}

\* C2: when checkHit reports a hit, the returned Target is the one that was
\* hit: inactive, with a hitTime, with the id and spawnTime it had when it was
\* hit, and it is not the replacement now in play.
C2_ReturnedTargetIsTheHitOne ==
  [][(ret'.op = "checkHit" /\ ret'.hit) =>
       LET t == ret'.target
       IN /\ ~heap'[t].isActive
          /\ heap'[t].hitTime # NULL
          /\ heap'[t].id = heap[t].id
          /\ heap'[t].spawnTime = heap[t].spawnTime
          /\ t \notin activeTargets'
          /\ \A i \in 1..Len(targets') : targets'[i].target # t]_vars

\* C3: startSpawning() in Idle moves to Spawning with the active-target count
\* equal to maxTargets; startSpawning() while Spawning changes nothing.
C3_StartSpawningTopsUp ==
  [][ret'.op = "startSpawning" =>
       IF isSpawning
       THEN UNCHANGED <<poolVars, managerVars>>
       ELSE isSpawning' /\ ActiveCount' = maxTargets']_vars

\* C4: a hit in Spawning leaves the active-target count as it was (one
\* target released, one replacement acquired); a hit in Idle acquires
\* nothing and the count drops by one.
C4_HitKeepsCount ==
  [][(ret'.op = "checkHit" /\ ret'.hit) =>
       IF isSpawning
       THEN /\ ActiveCount' = ActiveCount
            /\ Cardinality(activeTargets') = Cardinality(activeTargets)
            /\ Len(targets') = Len(targets)
            /\ idCount' = idCount + 1
       ELSE /\ ActiveCount' = ActiveCount - 1
            /\ Cardinality(activeTargets') = Cardinality(activeTargets) - 1
            /\ Len(targets') = Len(targets) - 1
            /\ idCount' = idCount]_vars

\* a shot that hit one of maxTargets active targets while Spawning
C4_Witness ==
  /\ ret.op = "checkHit"
  /\ ret.hit
  /\ isSpawning
  /\ maxTargets = 3
  /\ ActiveCount = 3

Clamp(lo, hi, n) == Max(lo, Min(hi, n))

C10_RecycledTargetIsFresh ==
  [][(ret'.op = "acquire" /\ pool # <<>>) =>
       LET t == ret'.target
       IN /\ heap'[t].isActive
          /\ heap'[t].position = ret'.arg[1]
          /\ heap'[t].size = ret'.arg[2]
          /\ heap'[t].hitTime = NULL
          /\ heap'[t].id # heap[t].id
          /\ \A u \in activeTargets' \ {t} : heap'[u].id # heap'[t].id
          /\ t \in activeTargets']_vars

\* a target that was acquired, released and acquired again
C10_Witness ==
  /\ ret.op = "acquire"
  /\ Len(heap) = idBase
  /\ idCount = idBase + 2
  /\ activeTargets = {ret.target}

Tiers == {LOW, MEDIUM, HIGH}

Down(level) == IF level = HIGH THEN MEDIUM ELSE LOW

Up(level) == IF level = LOW THEN MEDIUM ELSE HIGH

\* the step is an update() in which the periodic check ran on a full enough
\* window with auto-adjust enabled
CheckRan ==
  /\ ret'.op = "update"
  /\ perf.autoAdjustEnabled
  /\ clock' - perf.lastPerformanceCheck > CheckInterval
  /\ Len(perf'.fpsHistory) >= MinSamples

\* the window average that check saw, against the two thresholds
Poor == AverageBelow(perf'.fpsHistory, perf.minFps)

Good == AverageAbove10(perf'.fpsHistory, perf.targetFps * 9)

\* C5: under a constant frame time (a fixed window average) the tier never
\* returns to the tier it has just left, and an average between the two
\* thresholds changes nothing.
C5_NoOscillation ==
  [][/\ perf'.qualityLevel # perf.qualityLevel => perf'.qualityLevel # prevQuality
     /\ (CheckRan /\ ~Poor /\ ~Good) => perf'.qualityLevel = perf.qualityLevel]_vars

\* C6: in mode AUTO with auto-adjust enabled, a check that sees an average
\* below minFps applies and notifies the settings of a lower concrete tier,
\* and one that sees an average above 0.9 * targetFps those of a higher one.
C6_AutoModeAdjusts ==
  [][(CheckRan /\ perf.qualityLevel = AUTO) =>
       /\ Poor =>
            /\ perf'.notified # <<>>
            /\ perf'.qualitySettings \in
                 {getQualitySettings(LOW), getQualitySettings(MEDIUM)}
            /\ perf'.qualitySettings # perf.qualitySettings
       /\ (~Poor /\ Good /\ perf.qualitySettings # getQualitySettings(HIGH)) =>
            /\ perf'.notified # <<>>
            /\ perf'.qualitySettings # perf.qualitySettings]_vars

\* C7: a check on the tier LOW, MEDIUM or HIGH moves it down one step when
\* the average is below minFps and the tier is not LOW, else up one step when
\* the average is above 0.9 * targetFps and the tier is not HIGH, else leaves
\* it; no update() takes the tier from HIGH to LOW or from LOW to HIGH.
C7_OneStepPerCheck ==
  [][/\ (CheckRan /\ perf.qualityLevel \in Tiers) =>
          perf'.qualityLevel =
            IF Poor /\ perf.qualityLevel # LOW THEN Down(perf.qualityLevel)
            ELSE IF Good /\ perf.qualityLevel # HIGH THEN Up(perf.qualityLevel)
            ELSE perf.qualityLevel
     /\ ret'.op = "update" =>
          /\ ~(perf.qualityLevel = HIGH /\ perf'.qualityLevel = LOW)
          /\ ~(perf.qualityLevel = LOW /\ perf'.qualityLevel = HIGH)
          /\ (~CheckRan => perf'.qualityLevel = perf.qualityLevel)]_vars

\* a check has just taken HIGH down to MEDIUM on a window of slow frames only
C7_Witness ==
  /\ ret.op = "update"
  /\ lastAutoChange = clock
  /\ prevQuality = HIGH
  /\ perf.qualityLevel = MEDIUM
  /\ \A i \in 1..Len(perf.fpsHistory) : perf.fpsHistory[i] = fpsOf(35)

\* C8: two consecutive automatic tier changes are more than
\* performanceCheckInterval of update time apart.
C8_OneChangePerInterval ==
  [][(ret'.op = "update" /\ perf'.qualityLevel # perf.qualityLevel
        /\ lastAutoChange # NULL) =>
       clock' - lastAutoChange > CheckInterval]_vars

\* C11: every Target held in the pool's stack is inactive, whether the
\* constructor warm-up, preload or release put it there.
C11_AvailableTargetsInactive ==
  \A i \in 1..Len(pool) : ~heap[pool[i]].isActive

\* the targets checkHit tests the ray against: tracked and active
HitTestable ==
  {targets[i].target : i \in {j \in 1..Len(targets) : heap[targets[j].target].isActive}}

\* C12: between operations an inactive Target is not in the scene and not
\* hit-testable, a Target is in the scene exactly while it is in the pool's
\* active set, and checkHit reports a hit only on a target that was in play:
\* not one that had been released to the pool or disposed.
C12_InactiveNeverInPlay ==
  /\ [](/\ scene = activeTargets
        /\ \A t \in 1..Len(heap) : ~heap[t].isActive => t \notin scene
        /\ \A t \in HitTestable :
             /\ heap[t].isActive
             /\ t \in activeTargets
             /\ ~InPool(t)
             /\ ~heap[t].disposeCalled)
  /\ [][(ret'.op = "checkHit" /\ ret'.hit) =>
          /\ ret'.target \in activeTargets
          /\ ret'.target \in scene
          /\ ~InPool(ret'.target)
          /\ ~heap[ret'.target].disposeCalled]_vars

\* a hit target went back to the stack while others stay in play
C12_Witness ==
  /\ ret.op = "checkHit"
  /\ ret.hit
  /\ ~heap[ret.target].isActive
  /\ InPool(ret.target)
  /\ ret.target \notin scene
  /\ activeTargets # {}

\* the director is Idle with no live timer and nothing in play
Quiet ==
  /\ ~isSpawning
  /\ spawnInterval = NULL
  /\ timers = {}
  /\ getTargetCount(World) = 0
  /\ ActiveCount = 0
  /\ activeTargets = {}

\* C13: stopSpawning(), reset() and dispose() leave the director Idle with
\* the timer cancelled, every target that was active released, and all three
\* counts 0; that lasts, with no timer tick, until the next startSpawning,
\* setMaxTargets or spawnTarget.
C13_StopLeavesNothingInPlay ==
  [][/\ ret'.op \in {"stopSpawning", "reset", "dispose"} =>
          /\ Quiet'
          /\ \A t \in activeTargets :
               /\ ~heap'[t].isActive
               /\ t \notin scene'
               /\ InPool(t)' \/ heap'[t].disposeCalled
     /\ Quiet =>
          /\ ret'.op # "timer"
          /\ ret'.op \notin {"startSpawning", "setMaxTargets", "spawnTarget"} => Quiet']_vars

\* stopSpawning() has just ended a round in which targets were in play
C13_Witness ==
  /\ ret.op = "stopSpawning"
  /\ Quiet
  /\ idCount >= idBase + 3
  /\ Len(pool) = ManagerPoolSize

ActiveList == getActiveTargets(World)

\* C14: setMaxTargets(n) sets maxTargets to n clamped into [1,10] and leaves
\* exactly maxTargets active targets: the missing ones are spawned after the
\* ones in play, the excess ones are removed from the tail of the active
\* list, so that the earliest-spawned ones remain, in their order.
C14_SetMaxTargetsMatchesCount ==
  [][ret'.op = "setMaxTargets" =>
       /\ maxTargets' = Clamp(1, 10, ret'.arg)
       /\ ActiveCount' = maxTargets'
       /\ getTargetCount(World)' = maxTargets'
       /\ IF ActiveCount >= maxTargets'
          THEN /\ ActiveList' = SubSeq(ActiveList, 1, maxTargets')
               /\ idCount' = idCount
               /\ \A i \in 1..maxTargets' :
                    heap'[ActiveList[i]] = heap[ActiveList[i]]
          ELSE /\ SubSeq(ActiveList', 1, ActiveCount) = ActiveList
               /\ idCount' = idCount + (maxTargets' - ActiveCount)]_vars

\* setMaxTargets(0) has just culled a longer list of active targets down to
\* one, after a shot had taken the oldest one out
C14_Witness ==
  /\ ret.op = "setMaxTargets"
  /\ ret.arg = 0
  /\ maxTargets = 1
  /\ ActiveCount = 1
  /\ idCount >= idBase + 3
  /\ \E t \in 1..Len(heap) : heap[t].hitTime # NULL /\ heap[t].id < heap[ActiveList[1]].id

\* C15: while Spawning, a count of active targets below maxTargets is
\* eventually brought back to exactly maxTargets by the timer; a tick spawns
\* one target when the count is below maxTargets and nothing otherwise.
C15_BackstopRefills ==
  /\ [][ret'.op = "timer" =>
          IF ActiveCount < maxTargets
          THEN /\ ActiveCount' = ActiveCount + 1
               /\ idCount' = idCount + 1
               /\ ActiveCount' <= maxTargets'
          ELSE UNCHANGED <<poolVars, managerVars>>]_vars
  /\ (isSpawning /\ ActiveCount < maxTargets) ~> (ActiveCount = maxTargets)

\* a tick has just spawned the target that completes the count
C15_Witness ==
  /\ ret.op = "timer"
  /\ ret.target # NULL
  /\ isSpawning
  /\ ActiveCount = maxTargets

\* C16: a checkHit that reports a miss mutates no target: the tracked set,
\* the pool's two collections and every target's fields are as before,
\* nothing is spawned or released, and the hitPoint returned is defined.
C16_MissMutatesNothing ==
  [][(ret'.op = "checkHit" /\ ~ret'.hit) =>
       /\ UNCHANGED <<poolVars, managerVars>>
       /\ ret'.target = NULL
       /\ ret'.arg.point # NoPosition
       /\ Len(ret'.arg.point) = 3]_vars

\* a shot has just missed three active targets and the scene
C16_Witness ==
  /\ ret.op = "checkHit"
  /\ ~ret.hit
  /\ ActiveCount = 3
  /\ ret.arg.point = <<0, 16, -100>>

\* the active targets whose mesh the ray with these distances meets
Met(dist) == {t \in HitTestable : dist[t] # NULL}

\* C17: when the ray meets several active targets, checkHit reports and
\* releases only the one whose intersection distance is strictly smallest;
\* every other target the ray meets stays active, tracked and in the scene,
\* with its fields untouched.
C17_NearestWins ==
  [][ret'.op = "checkHit" =>
       LET dist == ret'.arg.dist
       IN /\ ret'.hit <=> Met(dist) # {}
          /\ \A t \in Met(dist) :
               (\A u \in Met(dist) \ {t} : dist[t] < dist[u]) =>
                 /\ ret'.hit
                 /\ ret'.target = t
                 /\ ~mapHas(targets', heap[t].id)
                 /\ ~heap'[t].isActive \/ heap'[t].id # heap[t].id
                 /\ \A u \in Met(dist) \ {t} :
                      /\ heap'[u] = heap[u]
                      /\ mapHas(targets', heap[u].id)
                      /\ u \in activeTargets'
                      /\ u \in scene'
                      /\ ~InPool(u)']_vars

\* the ray met two active targets and the farther one, which is the older of
\* the two, is still active after the nearer one was reported
C17_Witness ==
  /\ ret.op = "checkHit"
  /\ ret.hit
  /\ \E u \in 1..Len(heap) :
       /\ u < ret.target
       /\ u \in DOMAIN ret.arg.dist
       /\ ret.arg.dist[u] > ret.arg.dist[ret.target]
       /\ ret.arg.dist[ret.target] # NULL
       /\ heap[u].isActive
       /\ u \in activeTargets

\* the position lies inside the spawn area a
Inside(a, position) ==
  /\ a.minX <= position[1] /\ position[1] <= a.maxX
  /\ a.minY <= position[2] /\ position[2] <= a.maxY
  /\ a.minZ <= position[3] /\ position[3] <= a.maxZ

\* C18: every target spawned through spawnTarget, whether its position is
\* view-biased, uniform-random or supplied by the caller, is placed inside
\* the spawn area bounds in effect at that moment, for every camera
\* direction.
C18_SpawnedInsideBounds ==
  [][ret'.op = "spawnTarget" =>
       /\ TRAINING_AREA' = TRAINING_AREA
       /\ heap'[ret'.target].isActive
       /\ Inside(TRAINING_AREA, heap'[ret'.target].position)]_vars

\* with the radius at its minimum and the camera straight up, a view-biased
\* spawn was pulled in to the far edge of the area
C18_Witness ==
  /\ ret.op = "spawnTarget"
  /\ ret.arg = <<0, 10, 0>>
  /\ TRAINING_AREA.minZ = -80
  /\ heap[ret.target].position = <<0, 60, -80>>

\* C19: after any sequence of setSpawnRadius calls the spawn area has
\* minX < maxX, minY < maxY, minZ < maxZ and maxZ <= -5 units; each call
\* applies its argument clamped into [3, 15] units and leaves the vertical
\* bounds alone.
C19_SpawnAreaWellFormed ==
  /\ [](/\ TRAINING_AREA.minX < TRAINING_AREA.maxX
        /\ TRAINING_AREA.minY < TRAINING_AREA.maxY
        /\ TRAINING_AREA.minZ < TRAINING_AREA.maxZ
        /\ TRAINING_AREA.maxZ <= -50)
  /\ [][ret'.op = "setSpawnRadius" =>
         LET r == IF ret'.arg < 30 THEN 30 ELSE IF ret'.arg > 150 THEN 150 ELSE ret'.arg
         IN /\ TRAINING_AREA' = [minX |-> -r, maxX |-> r,
                                 minY |-> TRAINING_AREA.minY, maxY |-> TRAINING_AREA.maxY,
                                 minZ |-> -r - 50, maxZ |-> -50]
            /\ UNCHANGED <<poolVars, targets, maxTargets, isSpawning>>]_vars

\* a radius above the range was applied as 15 units
C19_Witness ==
  /\ ret.op = "setSpawnRadius"
  /\ ret.arg = 200
  /\ TRAINING_AREA.maxX = 150
  /\ TRAINING_AREA.minZ = -200

\* C20: release(t) of a target that is not in the pool's active set and
\* removeTarget(id) of an id the director does not track change nothing:
\* active, available, the scene, the tracked map and every target's fields
\* stay as they were, and no target is ever twice among the available ones.
C20_IgnoredRequestsChangeNothing ==
  /\ [](\A i, j \in 1..Len(pool) : pool[i] = pool[j] => i = j)
  /\ [][/\ (ret'.op = "release" /\ ret'.target \notin activeTargets) =>
             UNCHANGED <<poolVars, managerVars>>
        /\ (ret'.op = "removeTarget" /\ ~mapHas(targets, ret'.arg)) =>
             UNCHANGED <<poolVars, managerVars>>]_vars

\* a target was removed, and then its id was removed again
C20_Witness ==
  /\ ret.op = "removeTarget"
  /\ ret.arg # 0
  /\ ~mapHas(targets, ret.arg)
  /\ pool # <<>>
  /\ heap[pool[Len(pool)]].id = ret.arg
  /\ heap[pool[Len(pool)]].hitTime = NULL
  /\ idCount > idBase
  /\ targets # <<>>

\* C21: preload(n) only adds inactive targets to the available stack: on
\* return available + active >= min(n, maxPoolSize), the active set is
\* unchanged, no existing target is removed or altered, the available stack
\* is within maxPoolSize, and every target it added is inactive.
C21_PreloadAddsInactive ==
  [][ret'.op = "preload" =>
       /\ Len(pool') + Cardinality(activeTargets') >= Min(ret'.arg, maxPoolSize)
       /\ activeTargets' = activeTargets
       /\ scene' = scene
       /\ maxPoolSize' = maxPoolSize
       /\ Len(pool') <= maxPoolSize'
       /\ Len(pool') >= Len(pool)
       /\ SubSeq(pool', 1, Len(pool)) = pool
       /\ SubSeq(heap', 1, Len(heap)) = heap
       /\ \A i \in (Len(pool) + 1)..Len(pool') :
            /\ pool'[i] > Len(heap)
            /\ ~heap'[pool'[i]].isActive]_vars

\* C22: dispose() is called on a Target only when the pool evicts it (a
\* release onto a full stack, the overflow trimmed by setMaxPoolSize, or the
\* teardown by clear); a Target on which dispose() was called is never again
\* in the available stack or the active set, and acquire never returns one.
C22_DisposedOnlyOnEviction ==
  /\ [](\A t \in 1..Len(heap) :
          heap[t].disposeCalled => t \notin activeTargets /\ ~InPool(t))
  /\ [][/\ \A t \in 1..Len(heap) :
             (heap'[t].disposeCalled /\ ~heap[t].disposeCalled) =>
               \/ /\ ret'.op = "release"
                  /\ ret'.target = t
                  /\ t \in activeTargets
                  /\ Len(pool) >= maxPoolSize
               \/ /\ ret'.op = "setMaxPoolSize"
                  /\ \E i \in (maxPoolSize' + 1)..Len(pool) : pool[i] = t
               \/ /\ ret'.op = "clear"
                  /\ pool' = <<>>
                  /\ activeTargets' = {}
        /\ ret'.op = "acquire" =>
             /\ ~heap'[ret'.target].disposeCalled
             /\ ret'.target > Len(heap) \/ ~heap[ret'.target].disposeCalled]_vars

\* a release onto a full stack has just disposed of the released target
C22_Witness ==
  /\ ret.op = "release"
  /\ heap[ret.target].disposeCalled
  /\ Len(pool) = maxPoolSize
  /\ ~InPool(ret.target)

\* C23: a Target disposed of on eviction has its geometry and both materials
\* released: no Target that has left both collections still holds them.
C23_EvictedTargetsReleaseResources ==
  \A t \in 1..Len(heap) :
    (t \notin activeTargets /\ ~InPool(t)) =>
      heap[t].disposeCalled /\ heap[t].resourcesReleased

\* C24: every tier change, by a periodic check or through setQualityLevel,
\* invokes the registered quality-change callback exactly once, with the full
\* settings record of the new tier; the current settings are always the
\* record of the current tier; an update() that leaves the tier unchanged
\* invokes no callback.
C24_TierChangeNotifiesOnce ==
  /\ [](/\ perf.qualitySettings = getQualitySettings(perf.qualityLevel)
        /\ DOMAIN perf.qualitySettings =
             {"pixelRatio", "shadowMapSize", "antialias", "shadowsEnabled",
              "particleCount", "targetComplexity"})
  /\ [][/\ perf'.qualityLevel # perf.qualityLevel =>
             /\ ret'.op \in {"update", "setQualityLevel"}
             /\ perf'.notified = <<getQualitySettings(perf'.qualityLevel)>>
             /\ perf'.notified = <<perf'.qualitySettings>>
        /\ (ret'.op = "update" /\ perf'.qualityLevel = perf.qualityLevel) =>
             /\ perf'.notified = <<>>
             /\ perf'.qualitySettings = perf.qualitySettings]_vars

\* a periodic check has just raised MEDIUM to HIGH and notified the HIGH record
C24_Witness ==
  /\ ret.op = "update"
  /\ prevQuality = MEDIUM
  /\ lastAutoChange = clock
  /\ perf.qualityLevel = HIGH
  /\ perf.notified = <<getQualitySettings(HIGH)>>

\* C25: after every quality-change notification handled by the engine the
\* pool's maxPoolSize is floor(particleCount / 2) of the new settings clamped
\* into [5, 50] (LOW 5, MEDIUM 12, HIGH 25) and the available stack is within
\* it, while the active targets and maxTargets are as before, whatever hits,
\* timer ticks, startSpawning and stopSpawning come in between.
C25_NotificationResizesPoolOnly ==
  [][ret'.op = "qualityChange" =>
       LET settings == getQualitySettings(ret'.arg)
       IN /\ maxPoolSize' = Clamp(5, 50, settings.particleCount \div 2)
          /\ maxPoolSize' = (CASE ret'.arg = LOW -> 5
                               [] ret'.arg = MEDIUM -> 12
                               [] OTHER -> 25)
          /\ Len(pool') <= maxPoolSize'
          /\ activeTargets' = activeTargets
          /\ scene' = scene
          /\ targets' = targets
          /\ maxTargets' = maxTargets
          /\ isSpawning' = isSpawning
          /\ timers' = timers
          /\ \A t \in activeTargets : heap'[t] = heap[t]]_vars

\* a LOW notification during play trimmed the stack to 5 and left the three
\* active targets alone
C25_Witness ==
  /\ ret.op = "qualityChange"
  /\ ret.arg = LOW
  /\ maxPoolSize = 5
  /\ Len(pool) = 5
  /\ isSpawning
  /\ ActiveCount = 3
  /\ \E t \in 1..Len(heap) : heap[t].disposeCalled

\* the number of addHit calls at the end of the log
RECURSIVE TrailingHits(_)
TrailingHits(log) ==
  IF log = <<>> \/ log[Len(log)].op # "addHit" THEN 0
  ELSE 1 + TrailingHits(SubSeq(log, 1, Len(log) - 1))

\* the sum of the values the addHit calls of the log returned
RECURSIVE Returned(_)
Returned(log) ==
  IF log = <<>> THEN 0
  ELSE Returned(SubSeq(log, 1, Len(log) - 1))
         + (IF log[Len(log)].op = "addHit" THEN log[Len(log)].value ELSE 0)

\* C26: currentStreak is the number of consecutive hits since the last miss
\* or reset; bestStreak is the largest value currentStreak has taken since
\* the last reset; totalScore is the sum of the values addHit returned;
\* addMiss zeroes the streak, adds one miss and leaves bestStreak and
\* totalScore; a hit without time bonus scores 100 + 10 * currentStreak, the
\* streak counted after the increment.
C26_StreaksAndScore ==
  /\ [](/\ scoreData.currentStreak = TrailingHits(scoreLog)
        /\ scoreData.bestStreak >= scoreData.currentStreak
        /\ \A n \in 0..Len(scoreLog) :
             TrailingHits(SubSeq(scoreLog, 1, n)) <= scoreData.bestStreak
        /\ \E n \in 0..Len(scoreLog) :
             TrailingHits(SubSeq(scoreLog, 1, n)) = scoreData.bestStreak
        /\ scoreData.totalScore = Returned(scoreLog))
  /\ [][/\ ret'.op = "addMiss" =>
             /\ scoreData'.currentStreak = 0
             /\ scoreData'.misses = scoreData.misses + 1
             /\ scoreData'.bestStreak = scoreData.bestStreak
             /\ scoreData'.totalScore = scoreData.totalScore
             /\ scoreData'.hits = scoreData.hits
        /\ (ret'.op = "addHit" /\ ret'.arg \in {NULL, 0, 1000}) =>
             /\ scoreData'.currentStreak = scoreData.currentStreak + 1
             /\ scoreLog'[Len(scoreLog')].value = 100 + 10 * scoreData'.currentStreak]_vars

\* two hits, a miss, then a hit: the streak restarted at 1 below the best of 2
C26_Witness ==
  /\ ret.op = "addHit"
  /\ ret.arg = NULL
  /\ scoreData.currentStreak = 1
  /\ scoreData.bestStreak = 2
  /\ scoreData.misses = 1
  /\ scoreLog[Len(scoreLog)].value = 110

\* C27: every Target returned by acquire(position, size), freshly constructed
\* or recycled, has a sphere of radius exactly `size`: the radius its
\* geometry was built with times its mesh scale equals `size`.
C27_AcquiredRadiusIsSize ==
  [][ret'.op = "acquire" =>
       /\ heap'[ret'.target].size = ret'.arg[2]
       /\ heap'[ret'.target].geometryRadius * heap'[ret'.target].scale5
            = 5 * ret'.arg[2]]_vars

\* C28: the director's tracked map and the pool's active set hold exactly
\* the same Target instances; every tracked target is stored under its
\* current id, once, and is active, so getTargetCount() =
\* getActiveTargetCount() = getPoolStats().active; spawnTarget adds one to
\* these counts and removeTarget of a tracked id takes one off, so a spawn
\* followed by the removal of that target restores them.
C28_TrackedIsPoolActive ==
  /\ [](/\ {targets[i].target : i \in 1..Len(targets)} = activeTargets
        /\ \A i \in 1..Len(targets) :
             /\ targets[i].id = heap[targets[i].target].id
             /\ heap[targets[i].target].isActive
             /\ \A j \in 1..Len(targets) :
                  (targets[i].id = targets[j].id \/ targets[i].target = targets[j].target)
                    => i = j
        /\ getTargetCount(World) = ActiveCount
        /\ ActiveCount = Cardinality(activeTargets))
  /\ [][/\ ret'.op = "spawnTarget" =>
             /\ getTargetCount(World)' = getTargetCount(World) + 1
             /\ mapHas(targets', heap'[ret'.target].id)
             /\ ret'.target \notin activeTargets
        /\ (ret'.op = "removeTarget" /\ mapHas(targets, ret'.arg)) =>
             /\ getTargetCount(World)' = getTargetCount(World) - 1
             /\ activeTargets' = activeTargets \ {mapGet(targets, ret'.arg)}]_vars

\* during play with maxTargets 1 a second target was spawned and then
\* removed again: the first is still tracked and active
C28_Witness ==
  /\ ret.op = "removeTarget"
  /\ isSpawning
  /\ idCount = idBase + 2
  /\ pool # <<>>
  /\ heap[pool[Len(pool)]].id = ret.arg
  /\ ret.arg = idCount
  /\ Len(targets) = 1
  /\ Cardinality(activeTargets) = 1

\* C29: under any interleaving of startSpawning, stopSpawning, reset,
\* dispose and timer ticks, at most one backstop interval exists, and one
\* exists exactly when the director is spawning: a repeated startSpawning
\* stacks no second timer and no interval survives a stopSpawning.
C29_OneBackstopTimer ==
  /\ [](/\ Cardinality(timers) <= 1
        /\ isSpawning <=> timers # {}
        /\ isSpawning => timers = {spawnInterval}
        /\ ~isSpawning => spawnInterval = NULL)
  /\ [][/\ (ret'.op = "startSpawning" /\ isSpawning) => timers' = timers
        /\ ret'.op \in {"stopSpawning", "reset", "dispose"} =>
             timers' = {} /\ ~isSpawning'
        /\ ret'.op = "timer" => timers' = timers /\ isSpawning']_vars

\* startSpawning was called again while spawning, one target short of
\* maxTargets: still the one timer, and nothing was spawned
C29_Witness ==
  /\ ret.op = "startSpawning"
  /\ isSpawning
  /\ ActiveCount < maxTargets
  /\ Cardinality(timers) = 1

\* C30: in every reachable GameEngine state the TargetManager is spawning
\* only if the game state is PLAYING or PAUSED; in MENU, WAITING_TO_START and
\* ENDED it is idle with no active target and no backstop timer pending; and
\* checkHit is invoked only in PLAYING.
C30_SpawningOnlyInPlay ==
  /\ [](/\ isSpawning => game.currentState \in {PLAYING, PAUSED}
        /\ game.currentState \in {MENU_STATE, WAITING_TO_START, ENDED} =>
             /\ ~isSpawning
             /\ ActiveCount = 0
             /\ getTargetCount(World) = 0
             /\ activeTargets = {}
             /\ timers = {}
             /\ spawnInterval = NULL)
  /\ [][/\ (ret'.op = "click" /\ ret'.arg = "checkHit") => game.currentState = PLAYING
        /\ (ret'.op = "click" /\ ret'.arg # "checkHit") =>
             /\ scoreData' = scoreData
             /\ game.currentState # WAITING_TO_START => UNCHANGED <<poolVars, managerVars>>]_vars

\* the countdown reached 0 during play: the game has ended, the director is
\* idle and the targets it had spawned are back in the pool
C30_Witness ==
  /\ ret.op = "gameTimer"
  /\ game.currentState = ENDED
  /\ game.gameTimer = 0
  /\ game.gameTimers = {}
  /\ idCount >= idBase + 3
  /\ ~isSpawning
  /\ activeTargets = {}

====
